---------------------------- MODULE Spec2Model ----------------------------
(***************************************************************************)
(* Model of the wezzie-api backend (FastAPI handlers over one relational   *)
(* store).  The state is the content of the tables the handlers read and   *)
(* write; every action is one HTTP handler, translated from its code.      *)
(*                                                                         *)
(* Conventions                                                             *)
(*  - a row is a record, a table a function from primary keys to rows;     *)
(*  - a DateTime column is abstracted to Null / "set" (or to a logical     *)
(*    clock value where its change matters);                               *)
(*  - str-enums (AppointmentStatus, AmbulanceStatus) are their values; the *)
(*    string literals the handlers compare them with denote the member of  *)
(*    the same value;                                                      *)
(*  - resp is the response of the request being answered; a handler runs   *)
(*    only when no response is pending (Ready) and Return hands the        *)
(*    response back, so every behaviour is a sequence of whole requests;   *)
(*  - outbox holds the code of the last OTP message queued for each user,  *)
(*    template_type the template it was sent with;                         *)
(*  - authorisation dependencies (bearer token, role) are taken as passed: *)
(*    an action is a call by a caller the route admits; SpecAccess is the  *)
(*    exception, its actions carry the caller and the dependency.          *)
(***************************************************************************)
EXTENDS Naturals, FiniteSets, Sequences, TLC

VARIABLES
    users,                \* table users: id -> row
    profiles,             \* tables patient_profiles, staff_profiles: user id -> kind
    outbox,               \* the code of the last OTP message sent to each user
    template_type,        \* the template_type of that message
    appointments,         \* table appointments: id -> row
    next_appointment_id,  \* number of appointment rows inserted so far + 1
    inflight,             \* calendar create_appointment requests being served
    bookings,             \* table ambulance_bookings: id -> row
    ambulances,           \* table ambulances: id -> row
    dispatch_logs,        \* table ambulance_dispatch_logs: sequence of rows
    settings,             \* table system_settings: key_name -> value
    resp                  \* response of the last request served

vars == <<users, profiles, outbox, template_type, appointments, next_appointment_id, inflight,
          bookings, ambulances, dispatch_logs, settings, resp>>

authVars == <<users, profiles, outbox, template_type>>
apptVars == <<appointments, next_appointment_id>>
dispatchVars == <<bookings, ambulances, dispatch_logs>>

-----------------------------------------------------------------------------
(* Values *)

Null == "null"          \* SQL NULL / Python None
Unset == "unset"        \* a field the request body does not carry
Ghost == "ghost"        \* a well-formed id that names no row
NoId == 0               \* "no row" in resp.id

\* Bounds of the model.
MaxAppointments == 2    \* appointment rows ever inserted
MaxBookings == 2        \* ambulance booking rows ever inserted
MaxLogins == 2          \* successful logins per user (logical clock of last_login_at)

UserRole == {"patient", "doctor", "nurse", "admin", "receptionist", "ambulance_driver"}

AppointmentStatus ==
    {"scheduled", "confirmed", "in_progress", "completed", "cancelled", "no_show"}

AmbulanceStatus ==
    {"requested", "assigned", "en_route_pickup", "arrived_pickup", "transporting",
     "en_route_hospital", "arrived_hospital", "completed", "cancelled"}

\* The status list every "active bookings" query of the ambulance routes uses.
ActiveBookingStatus ==
    {"assigned", "en_route_pickup", "arrived_pickup", "transporting", "en_route_hospital"}

\* Input domains.
Dates == {"d10", "d11"}
Times == {"t09", "t10"}
Services == {"svc1"}
Departments == {"dep1"}

\* A response without tokens.  A token is the set of the names of its claims.
NoTokens == [access |-> {}, refresh |-> {}]

Resp(op, code, id) ==
    [op |-> op, code |-> code, id |-> id, tokens |-> NoTokens, message |-> Null]

NoResp == Resp("none", 0, NoId)

\* Requests are served one at a time: a handler starts when the response of the
\* previous request has been returned.
Ready == resp = NoResp

\* The response goes back to the caller.
Return ==
    /\ resp # NoResp
    /\ resp' = NoResp
    /\ UNCHANGED <<authVars, appointments, next_appointment_id, inflight,
                   bookings, ambulances, dispatch_logs, settings>>


-----------------------------------------------------------------------------
(* Table users.  The appointment and dispatch routes only read it. *)

\* An email address and a phone number: what the auth routes look users up by.
Email(u) == <<"email", u>>
Phone(u) == <<"phone", u>>

\* hash_password: the stored form of a password; never the password itself.
hash_password(password) == <<"bcrypt", password>>

\* verify_password: bcrypt.checkpw of the plain password against the stored hash.
verify_password(plain, hashed) == hashed = hash_password(plain)

UserRow(u, role) ==
    [email |-> Email(u), phone |-> Phone(u), role |-> role,
     password |-> hash_password("pw1"), otp |-> Null, is_active |-> TRUE,
     email_verified_at |-> Null, phone_verified_at |-> Null, last_login_at |-> 0]

\* Users present before the scenarios start.
SeedUsers ==
    [u \in {"p1", "p2", "d1", "r1", "drv1", "drv2"} |->
        CASE u \in {"p1", "p2"} -> UserRow(u, "patient")
          [] u = "d1" -> UserRow(u, "doctor")
          [] u = "r1" -> UserRow(u, "receptionist")
          [] OTHER -> UserRow(u, "ambulance_driver")]

\* The profile signup stores with a user: patient_profiles or staff_profiles.
ProfileKind(role) == IF role = "patient" THEN "patient" ELSE "staff"

SeedProfiles == [u \in DOMAIN SeedUsers |-> ProfileKind(SeedUsers[u].role)]

Patients == {"p1", "p2"}

\* The patient who books; the other patient owns no row and only calls.
Bookers == {"p1"}

-----------------------------------------------------------------------------
(* Table appointments *)

AppointmentRow(patient, doctor, date, time, status) ==
    [patient_id |-> patient, doctor_id |-> doctor, appointment_date |-> date,
     appointment_time |-> time, status |-> status,
     cancelled_at |-> Null, cancellation_reason |-> Null]

\* db.add(row); db.commit() of a new appointment row: the next primary key.
InsertAppointment(tbl, id, row) ==
    [i \in DOMAIN tbl \cup {id} |-> IF i = id THEN row ELSE tbl[i]]

DeleteAppointment(tbl, id) == [i \in DOMAIN tbl \ {id} |-> tbl[i]]

\* The statuses the slot conflict query of the calendar routes filters on.
ConflictStatuses == {"scheduled", "confirmed"}

\* The conflict query of create_appointment / update_appointment (calendar):
\* some row other than `except` has this doctor, date and time and a status in
\* {SCHEDULED, CONFIRMED}.  create passes except = NoId.
SlotTaken(tbl, doctor, date, time, except) ==
    \E i \in DOMAIN tbl :
        /\ i # except
        /\ tbl[i].doctor_id = doctor
        /\ tbl[i].appointment_date = date
        /\ tbl[i].appointment_time = time
        /\ tbl[i].status \in ConflictStatuses

\* The commit of an appointment row fails (IntegrityError) when a NOT NULL column
\* is NULL or doctor_id names no user.
CommitFails(row) ==
    \/ row.appointment_date = Null
    \/ row.appointment_time = Null
    \/ (row.doctor_id # Null /\ row.doctor_id \notin DOMAIN users)

-----------------------------------------------------------------------------
(* Calendar routes (admin): src/app/routes/calenda/router.py *)

\* Bodies of POST /: AppointmentCreate.  The well-formed ones, and one body for
\* each reference that names no row or a user who is no doctor or nurse.
CalCreateValid ==
    [patient_id : {"p1"}, doctor_id : {Null, "d1"}, department_id : Departments,
     service_id : Services, appointment_date : Dates, appointment_time : Times,
     status : AppointmentStatus]

CalCreateBase ==
    [patient_id |-> "p1", doctor_id |-> "d1", department_id |-> "dep1",
     service_id |-> "svc1", appointment_date |-> "d10", appointment_time |-> "t09",
     status |-> "scheduled"]

CalCreateReqs ==
    CalCreateValid \cup
    { [CalCreateBase EXCEPT !.patient_id = Ghost],
      [CalCreateBase EXCEPT !.doctor_id = Ghost],
      [CalCreateBase EXCEPT !.doctor_id = "r1"],
      [CalCreateBase EXCEPT !.department_id = Ghost],
      [CalCreateBase EXCEPT !.service_id = Ghost] }

\* The checks of create_appointment up to the conflict query, in the code's order:
\* the status code they raise, 0 when they all pass.
CalCreateValidate(req) ==
    IF req.patient_id \notin DOMAIN users THEN 404
    ELSE IF req.doctor_id # Null /\ req.doctor_id \notin DOMAIN users THEN 404
    ELSE IF req.doctor_id # Null /\ users[req.doctor_id].role \notin {"doctor", "nurse"}
         THEN 400
    ELSE IF req.department_id \notin Departments THEN 404
    ELSE IF req.service_id \notin Services THEN 404
    ELSE 0

\* The conflict query of create_appointment: only if a doctor is assigned.
CalCreateConflict(tbl, req) ==
    /\ req.doctor_id # Null
    /\ SlotTaken(tbl, req.doctor_id, req.appointment_date, req.appointment_time, NoId)

CalCreateCode(req) ==
    IF CalCreateValidate(req) # 0 THEN CalCreateValidate(req)
    ELSE IF CalCreateConflict(appointments, req) THEN 409
    ELSE 200

CalCreateRow(req) ==
    AppointmentRow(req.patient_id, req.doctor_id, req.appointment_date,
                   req.appointment_time, req.status)

\* The table create_appointment leaves: db.add, db.commit when every check passed.
CalCreateTable(req) ==
    IF CalCreateCode(req) = 200
    THEN InsertAppointment(appointments, next_appointment_id, CalCreateRow(req))
    ELSE appointments

\* POST / served by a single worker, start to end.
CalCreate(req) ==
    LET code == CalCreateCode(req) IN
    /\ Ready
    /\ code = 200 => next_appointment_id <= MaxAppointments
    /\ appointments' = CalCreateTable(req)
    /\ next_appointment_id' = IF code = 200 THEN next_appointment_id + 1
                              ELSE next_appointment_id
    /\ resp' = Resp("cal_create", code, IF code = 200 THEN next_appointment_id ELSE NoId)
    /\ UNCHANGED <<authVars, inflight, dispatchVars, settings>>

\* Bodies of PUT /{id}: AppointmentUpdate with exclude_unset.  A body sets the slot
\* fields or the status.
SlotUpdates ==
    [doctor_id : {Unset, Null, "d1"}, appointment_date : {Unset} \cup Dates,
     appointment_time : {Unset} \cup Times, status : {Unset}]

StatusUpdates ==
    [doctor_id : {Unset}, appointment_date : {Unset}, appointment_time : {Unset},
     status : AppointmentStatus]

NoUpdate ==
    [doctor_id |-> Unset, appointment_date |-> Unset, appointment_time |-> Unset,
     status |-> Unset]

BadUpdates ==
    { [NoUpdate EXCEPT !.doctor_id = Ghost],
      [NoUpdate EXCEPT !.appointment_date = Null, !.appointment_time = "t10"],
      [NoUpdate EXCEPT !.appointment_time = Null, !.appointment_date = "d11"] }

UpdateReqs == SlotUpdates \cup StatusUpdates \cup BadUpdates

AppointmentIds == 1..MaxAppointments

\* update_data.get(field, default)
Get(u, field, default) == IF u[field] = Unset THEN default ELSE u[field]

\* update_data.get(field) is truthy
Truthy(u, field) == u[field] \notin {Unset, Null}

\* for field, value in update_data.items(): setattr(appointment, field, value)
ApplyUpdate(row, u) ==
    [row EXCEPT !.doctor_id = Get(u, "doctor_id", @),
                !.appointment_date = Get(u, "appointment_date", @),
                !.appointment_time = Get(u, "appointment_time", @),
                !.status = Get(u, "status", @)]

\* The conflict check of update_appointment (calendar): made only when the body
\* carries a date or a time.
CalUpdateConflict(tbl, id, u) ==
    LET doctor == Get(u, "doctor_id", tbl[id].doctor_id)
        check_date == Get(u, "appointment_date", tbl[id].appointment_date)
        check_time == Get(u, "appointment_time", tbl[id].appointment_time)
    IN  /\ doctor # Null
        /\ (Truthy(u, "appointment_date") \/ Truthy(u, "appointment_time"))
        /\ SlotTaken(tbl, doctor, check_date, check_time, id)

CalUpdateCode(id, u) ==
    IF id \notin DOMAIN appointments THEN 404
    ELSE IF CalUpdateConflict(appointments, id, u) THEN 409
    ELSE IF CommitFails(ApplyUpdate(appointments[id], u)) THEN 500
    ELSE 200

\* PUT /{appointment_id}
CalUpdate(id, u) ==
    LET code == CalUpdateCode(id, u) IN
    /\ Ready
    /\ IF code = 200
       THEN appointments' = [appointments EXCEPT ![id] = ApplyUpdate(@, u)]
       ELSE UNCHANGED appointments
    /\ resp' = Resp("cal_update", code, NoId)
    /\ UNCHANGED <<authVars, next_appointment_id, inflight, dispatchVars, settings>>

\* DELETE /{appointment_id}
CalDelete(id) ==
    /\ Ready
    /\ IF id \in DOMAIN appointments
       THEN /\ appointments' = DeleteAppointment(appointments, id)
            /\ resp' = Resp("cal_delete", 200, NoId)
       ELSE /\ UNCHANGED appointments
            /\ resp' = Resp("cal_delete", 404, NoId)
    /\ UNCHANGED <<authVars, next_appointment_id, inflight, dispatchVars, settings>>


-----------------------------------------------------------------------------
(* Patient routes: src/app/routes/patients/router.py.  Every handler body is  *)
(* wrapped in  try: ... except Exception: db.rollback(); raise HTTPException  *)
(* (500), and HTTPException is an Exception: the 404 and 400 the body raises  *)
(* reach the caller as 500.                                                   *)

\* except Exception as e: ... raise HTTPException(status_code=500)
CaughtAs500(code) == IF code \in {400, 404} THEN 500 ELSE code

\* Bodies of POST /patients/appointments.  aware: appointment_time carries a UTC
\* offset (datetime.combine is then comparable with the zone-aware current time,
\* otherwise the comparison raises TypeError); past: the slot lies before now.
\* The well-formed bodies, and one body for each way the handler body fails.
PatCreateValid ==
    [service_id : Services, department_id : Departments,
     appointment_date : Dates, appointment_time : Times,
     aware : {TRUE}, past : {FALSE}]

PatCreateBase ==
    [service_id |-> "svc1", department_id |-> "dep1", appointment_date |-> "d10",
     appointment_time |-> "t09", aware |-> TRUE, past |-> FALSE]

PatCreateReqs ==
    PatCreateValid \cup
    { [PatCreateBase EXCEPT !.service_id = Ghost],
      [PatCreateBase EXCEPT !.department_id = Ghost],
      [PatCreateBase EXCEPT !.aware = FALSE],
      [PatCreateBase EXCEPT !.past = TRUE] }

\* The status code the body of create_appointment (patient) ends with.
PatCreateBody(req) ==
    IF req.service_id \notin Services THEN 404
    ELSE IF req.department_id \notin Departments THEN 404
    ELSE IF ~req.aware THEN 500
    ELSE IF req.past THEN 400
    ELSE 201

\* POST /patients/appointments: no doctor, status by the column default.
PatCreate(caller, req) ==
    LET code == CaughtAs500(PatCreateBody(req)) IN
    /\ Ready
    /\ code = 201 => next_appointment_id <= MaxAppointments
    /\ IF code = 201
       THEN /\ appointments' =
                  InsertAppointment(appointments, next_appointment_id,
                      AppointmentRow(caller, Null, req.appointment_date,
                                     req.appointment_time, "scheduled"))
            /\ next_appointment_id' = next_appointment_id + 1
       ELSE UNCHANGED apptVars
    /\ resp' = Resp("pat_create", code, IF code = 201 THEN next_appointment_id ELSE NoId)
    /\ UNCHANGED <<authVars, inflight, dispatchVars, settings>>

\* Bodies of PUT /patients/appointments/{id}: the patient AppointmentUpdate schema
\* has date and time, no doctor and no status.
PatUpdateReqs ==
    [doctor_id : {Unset}, appointment_date : {Unset, Null} \cup Dates,
     appointment_time : {Unset, Null} \cup Times, status : {Unset}]

\* if value is not None: setattr(appointment, field, value)
ApplyNotNone(row, u) ==
    [row EXCEPT !.appointment_date = IF Truthy(u, "appointment_date")
                                     THEN u.appointment_date ELSE @,
                !.appointment_time = IF Truthy(u, "appointment_time")
                                     THEN u.appointment_time ELSE @]

\* A lookup by id alone: the variant the code does not have.
AnyAppointment(caller, id) == id \in DOMAIN appointments

\* The row the patient routes find: id and patient_id = current_user.id.
OwnAppointment(caller, id) ==
    id \in DOMAIN appointments /\ appointments[id].patient_id = caller

PatUpdateBody(caller, id) ==
    IF ~OwnAppointment(caller, id) THEN 404
    ELSE IF appointments[id].status \in {"completed", "cancelled"} THEN 400
    ELSE 200

\* PUT /patients/appointments/{appointment_id}
PatUpdate(caller, id, u) ==
    LET code == CaughtAs500(PatUpdateBody(caller, id)) IN
    /\ Ready
    /\ IF code = 200
       THEN appointments' = [appointments EXCEPT ![id] = ApplyNotNone(@, u)]
       ELSE UNCHANGED appointments
    /\ resp' = Resp("pat_update", code, NoId)
    /\ UNCHANGED <<authVars, next_appointment_id, inflight, dispatchVars, settings>>

\* GET /patients/appointments/{appointment_id}: the id of the response is the
\* row returned.
PatGet(caller, id) ==
    LET code == CaughtAs500(IF OwnAppointment(caller, id) THEN 200 ELSE 404) IN
    /\ Ready
    /\ resp' = Resp("pat_get", code, IF code = 200 THEN id ELSE NoId)
    /\ UNCHANGED <<authVars, apptVars, inflight, dispatchVars, settings>>

PatCancelBody(caller, id) ==
    IF ~OwnAppointment(caller, id) THEN 404
    ELSE IF appointments[id].status = "cancelled" THEN 400
    ELSE 204

\* DELETE /patients/appointments/{appointment_id}?cancellation_reason=...
PatCancel(caller, id) ==
    LET code == CaughtAs500(PatCancelBody(caller, id)) IN
    /\ Ready
    /\ IF code = 204
       THEN appointments' = [appointments EXCEPT ![id] =
                [@ EXCEPT !.status = "cancelled", !.cancellation_reason = "set",
                          !.cancelled_at = "set"]]
       ELSE UNCHANGED appointments
    /\ resp' = Resp("pat_cancel", code, NoId)
    /\ UNCHANGED <<authVars, next_appointment_id, inflight, dispatchVars, settings>>

-----------------------------------------------------------------------------
(* Staff routes (doctor, nurse): src/app/routes/staffs/router.py *)

StaffUpdateCode(id, u) ==
    IF id \notin DOMAIN appointments THEN 404
    ELSE IF CommitFails(ApplyUpdate(appointments[id], u)) THEN 500
    ELSE 200

\* PUT /staff/appointments/{appointment_id}: the body is a dict, every key that
\* is an attribute of the row is set.
StaffUpdate(id, u) ==
    LET code == StaffUpdateCode(id, u) IN
    /\ Ready
    /\ IF code = 200
       THEN appointments' = [appointments EXCEPT ![id] = ApplyUpdate(@, u)]
       ELSE UNCHANGED appointments
    /\ resp' = Resp("staff_update", code, NoId)
    /\ UNCHANGED <<authVars, next_appointment_id, inflight, dispatchVars, settings>>

-----------------------------------------------------------------------------
(* Specifications of the scheduling ledger *)

Workers == {"w1", "w2"}

Idle == [pc |-> "idle", req |-> CalCreateBase]

InitTables ==
    /\ users = SeedUsers
    /\ profiles = SeedProfiles
    /\ outbox = [u \in DOMAIN SeedUsers |-> Null]
    /\ template_type = [u \in DOMAIN SeedUsers |-> Null]
    /\ appointments = << >>
    /\ next_appointment_id = 1
    /\ inflight = [w \in Workers |-> Idle]
    /\ bookings = << >>
    /\ ambulances = << >>
    /\ dispatch_logs = << >>
    /\ settings = << >>
    /\ resp = NoResp

\* The calendar routes alone, each request served start to end.
NextCalendar ==
    \/ \E req \in CalCreateReqs : CalCreate(req)
    \/ \E id \in AppointmentIds, u \in UpdateReqs : CalUpdate(id, u)
    \/ \E id \in AppointmentIds : CalDelete(id)
    \/ Return

SpecCalendar == InitTables /\ [][NextCalendar]_vars

\* Every appointment route, each request served start to end.
NextAppointments ==
    \/ NextCalendar
    \/ \E p \in Bookers, req \in PatCreateReqs : PatCreate(p, req)
    \/ \E p \in Patients, id \in AppointmentIds, u \in PatUpdateReqs : PatUpdate(p, id, u)
    \/ \E p \in Patients, id \in AppointmentIds : PatCancel(p, id)
    \/ \E p \in Patients, id \in AppointmentIds : PatGet(p, id)
    \/ \E id \in AppointmentIds, u \in UpdateReqs : StaffUpdate(id, u)

SpecAppointments == InitTables /\ [][NextAppointments]_vars


-----------------------------------------------------------------------------
(* Two workers serving POST / (calendar) at once.  Each worker has its own    *)
(* session; the conflict SELECT and the INSERT/COMMIT are two statements sent *)
(* to the store, and statements of different workers interleave there.  The   *)
(* appointments table has no unique constraint on (doctor, date, time).       *)

\* Bodies the two workers receive: status left to its default.
RaceReqs ==
    { req \in CalCreateValid : req.status = "scheduled" } \cup
    { [CalCreateBase EXCEPT !.service_id = Ghost] }

\* Lines 163-217 of create_appointment: the lookups and the conflict query.
RaceCheck(w, req) ==
    LET code == CalCreateCode(req) IN
    /\ inflight[w].pc = "idle"
    /\ inflight' = [inflight EXCEPT ![w] =
           [pc |-> IF code = 200 THEN "checked" ELSE "done", req |-> req]]
    /\ resp' = IF code = 200 THEN resp ELSE Resp("cal_create", code, NoId)
    /\ UNCHANGED <<authVars, apptVars, dispatchVars, settings>>

\* A commit that a unique index on (doctor, date, time) would refuse: the
\* variant the code does not have.
RaceCommitGuarded(w) ==
    LET taken == CalCreateConflict(appointments, inflight[w].req) IN
    /\ inflight[w].pc = "checked"
    /\ next_appointment_id <= MaxAppointments
    /\ appointments' = IF taken THEN appointments
                       ELSE InsertAppointment(appointments, next_appointment_id,
                                              CalCreateRow(inflight[w].req))
    /\ next_appointment_id' = IF taken THEN next_appointment_id
                              ELSE next_appointment_id + 1
    /\ inflight' = [inflight EXCEPT ![w].pc = "done"]
    /\ resp' = IF taken THEN Resp("cal_create", 409, NoId)
               ELSE Resp("cal_create", 200, next_appointment_id)
    /\ UNCHANGED <<authVars, dispatchVars, settings>>

\* Lines 219-229 of create_appointment: db.add, db.commit, db.refresh.  Nothing
\* is read again and no constraint of the table can refuse the row.
RaceCommit(w) ==
    /\ inflight[w].pc = "checked"
    /\ next_appointment_id <= MaxAppointments
    /\ appointments' = InsertAppointment(appointments, next_appointment_id,
                                         CalCreateRow(inflight[w].req))
    /\ next_appointment_id' = next_appointment_id + 1
    /\ inflight' = [inflight EXCEPT ![w].pc = "done"]
    /\ resp' = Resp("cal_create", 200, next_appointment_id)
    /\ UNCHANGED <<authVars, dispatchVars, settings>>

\* The worker has answered and takes the next request.
RaceDone(w) ==
    /\ inflight[w].pc = "done"
    /\ inflight' = [inflight EXCEPT ![w] = Idle]
    /\ UNCHANGED <<authVars, apptVars, dispatchVars, resp, settings>>

NextRace ==
    \/ \E w \in Workers, req \in RaceReqs : RaceCheck(w, req)
    \/ \E w \in Workers : RaceCommit(w)
    \/ \E w \in Workers : RaceDone(w)

SpecRace == InitTables /\ [][NextRace]_vars


-----------------------------------------------------------------------------
(* Properties of the appointment routes.                                      *)

SameSlot(a, b) ==
    /\ a.doctor_id = b.doctor_id
    /\ a.appointment_date = b.appointment_date
    /\ a.appointment_time = b.appointment_time

Terminal(row) == row.status \in {"completed", "cancelled"}

\* C1: after a calendar create_appointment has persisted a non-cancelled
\* appointment of a doctor, the next create_appointment naming the same doctor,
\* date and time with a non-cancelled status is answered 409 and persists
\* nothing, so that exactly one of the two is stored.
C1_SecondCreateConflicts ==
    (resp.op = "cal_create" /\ resp.code = 200) =>
        LET first == appointments[resp.id] IN
        (first.doctor_id # Null /\ first.status # "cancelled") =>
            \A req \in CalCreateValid :
                (SameSlot(req, first) /\ req.status # "cancelled") =>
                    (CalCreateCode(req) = 409 /\ CalCreateTable(req) = appointments)

\* C7: no two distinct non-cancelled appointments with a doctor share the
\* doctor, the date and the time, in any state the appointment routes reach.
C7_NoDoubleBooking ==
    \A i, j \in DOMAIN appointments :
        (/\ i # j
         /\ appointments[i].doctor_id # Null
         /\ appointments[i].status # "cancelled"
         /\ appointments[j].status # "cancelled")
        => ~SameSlot(appointments[i], appointments[j])

\* The step is refused and leaves the appointments as they were.
Refused == resp'.code >= 400 /\ appointments' = appointments

\* C8: an update or a cancel of a completed or cancelled appointment, by the
\* patient routes, the staff route or the calendar route, is refused and
\* leaves every field of the appointment unchanged.
C8_TerminalFrozen ==
    [][\A id \in DOMAIN appointments :
         Terminal(appointments[id]) =>
            /\ \A u \in UpdateReqs :
                  (CalUpdate(id, u) \/ StaffUpdate(id, u)) => Refused
            /\ \A p \in Patients :
                  /\ PatCancel(p, id) => Refused
                  /\ \A u \in PatUpdateReqs : PatUpdate(p, id, u) => Refused]_vars

\* The triple of the appointment differs after the update from before.
ChangesSlot(row, u) == ~SameSlot(ApplyUpdate(row, u), row)

\* Another scheduled or confirmed appointment holds the triple the update
\* results in.
ResultTaken(id, u) ==
    LET new == ApplyUpdate(appointments[id], u) IN
    /\ new.doctor_id # Null
    /\ SlotTaken(appointments, new.doctor_id, new.appointment_date,
                 new.appointment_time, id)

\* C10: a calendar update_appointment that changes the doctor, the date or the
\* time is answered 409 and changes nothing when another scheduled or
\* confirmed appointment holds the resulting triple, and is persisted
\* otherwise.
C10_UpdateConflictChecked ==
    [][\A id \in DOMAIN appointments : \A u \in SlotUpdates :
         (CalUpdate(id, u) /\ ChangesSlot(appointments[id], u)) =>
            IF ResultTaken(id, u)
            THEN resp'.code = 409 /\ appointments' = appointments
            ELSE /\ resp'.code = 200
                 /\ appointments'[id] = ApplyUpdate(appointments[id], u)]_vars

-----------------------------------------------------------------------------
(* Properties of concurrent calendar creates.                                 *)

\* C9: the conflict query and the commit of create_appointment are separate
\* steps with nothing held between them: a request that has passed the query
\* is committed with status scheduled and answered 200 even when another
\* worker has committed the same doctor, date and time since the query.
C9_CommitIgnoresLaterRows ==
    [][\A w \in Workers :
         (/\ inflight[w].pc = "checked"
          /\ inflight'[w].pc = "done"
          /\ CalCreateConflict(appointments, inflight[w].req))
         => /\ resp' = Resp("cal_create", 200, next_appointment_id)
            /\ next_appointment_id \in DOMAIN appointments'
            /\ appointments'[next_appointment_id] = CalCreateRow(inflight[w].req)
            /\ appointments'[next_appointment_id].status = "scheduled"]_vars

\* Both workers passed the query before either committed, and both rows are
\* stored as scheduled for the same doctor, date and time.
C9_BothPersisted ==
    /\ \A w \in Workers : inflight[w].pc = "done"
    /\ inflight["w1"].req.doctor_id # Null
    /\ SameSlot(inflight["w1"].req, inflight["w2"].req)
    /\ \E i, j \in DOMAIN appointments :
          /\ i # j
          /\ appointments[i] = CalCreateRow(inflight["w1"].req)
          /\ appointments[j] = CalCreateRow(inflight["w2"].req)
          /\ appointments[i].status = "scheduled"
          /\ appointments[j].status = "scheduled"


-----------------------------------------------------------------------------
(* Ambulances and ambulance bookings.                                         *)

AmbulanceIds == {"a1"}
Registrations == {"R1"}

\* AmbulanceStatus.__members__: member name -> value.
AmbulanceStatusMembers ==
    [REQUESTED |-> "requested", ASSIGNED |-> "assigned",
     EN_ROUTE_PICKUP |-> "en_route_pickup", ARRIVED_PICKUP |-> "arrived_pickup",
     TRANSPORTING |-> "transporting", EN_ROUTE_HOSPITAL |-> "en_route_hospital",
     ARRIVED_HOSPITAL |-> "arrived_hospital", COMPLETED |-> "completed",
     CANCELLED |-> "cancelled"]

\* The labels the routes of the ambulance fleet accept as "status".
FrontendStatuses == {"Available", "In Transit", "Occupied", "In Repair", "Unavailable"}

\* frontend_status in ["Available", "In Transit", "Occupied"]
IsOperational(frontend_status) ==
    frontend_status \in {"Available", "In Transit", "Occupied"}

\* The only labels for which update_ambulance_status cancels bookings.
CascadeStatuses == {"In Repair", "Unavailable"}

BookingRow(patient) ==
    [patient_id |-> patient, driver_id |-> Null, ambulance_id |-> Null,
     status |-> "requested", cancellation_reason |-> Null,
     assigned_at |-> Null, en_route_pickup_at |-> Null, arrived_pickup_at |-> Null,
     transporting_at |-> Null, en_route_hospital_at |-> Null,
     arrived_hospital_at |-> Null, completed_at |-> Null, cancelled_at |-> Null]

\* "Timestamps for status tracking": the column of a booking named after each
\* status.
StatusStamp ==
    [assigned |-> "assigned_at", en_route_pickup |-> "en_route_pickup_at",
     arrived_pickup |-> "arrived_pickup_at", transporting |-> "transporting_at",
     en_route_hospital |-> "en_route_hospital_at",
     arrived_hospital |-> "arrived_hospital_at", completed |-> "completed_at",
     cancelled |-> "cancelled_at"]

BookingIds == 1..MaxBookings
Drivers == {"drv1", "drv2"}

\* The rows of ambulance a that the active-status queries return.
ActiveBookings(a) ==
    { b \in DOMAIN bookings :
        bookings[b].ambulance_id = a /\ bookings[b].status \in ActiveBookingStatus }

\* Bodies of POST /patients/ambulance-bookings, by what the handler reads.
BookingCreateReqs ==
    { [pickup_district_id |-> Null, aware |-> TRUE, past |-> FALSE],
      [pickup_district_id |-> Ghost, aware |-> TRUE, past |-> FALSE],
      [pickup_district_id |-> Null, aware |-> FALSE, past |-> FALSE],
      [pickup_district_id |-> Null, aware |-> TRUE, past |-> TRUE] }

\* create_ambulance_booking inside its try block: 404 for an unknown district,
\* TypeError (500) when a naive requested_datetime meets the aware clock, 400
\* for a time in the past.
BookingCreateBody(req) ==
    IF req.pickup_district_id = Ghost THEN 404
    ELSE IF ~req.aware THEN 500
    ELSE IF req.past THEN 400
    ELSE 201

\* POST /patients/ambulance-bookings
PatBookCreate(caller, req) ==
    LET code == CaughtAs500(BookingCreateBody(req)) IN
    /\ Ready
    /\ code = 201 => Len(bookings) < MaxBookings
    /\ bookings' = IF code = 201 THEN Append(bookings, BookingRow(caller))
                   ELSE bookings
    /\ resp' = Resp("book_create", code, IF code = 201 THEN Len(bookings) + 1 ELSE NoId)
    /\ UNCHANGED <<authVars, apptVars, inflight, ambulances, dispatch_logs, settings>>

OwnBooking(caller, id) ==
    id \in DOMAIN bookings /\ bookings[id].patient_id = caller

\* update_ambulance_booking (patient) inside its try block.
PatBookUpdateBody(caller, id) ==
    IF ~OwnBooking(caller, id) THEN 404
    ELSE IF bookings[id].status \in {"completed", "cancelled"} THEN 400
    ELSE 200

\* PUT /patients/ambulance-bookings/{id}: the body has no status, driver or
\* ambulance; the columns it sets are descriptive ones.
PatBookUpdate(caller, id) ==
    /\ Ready
    /\ resp' = Resp("book_update", CaughtAs500(PatBookUpdateBody(caller, id)), NoId)
    /\ UNCHANGED <<authVars, apptVars, inflight, dispatchVars, settings>>

\* cancel_ambulance_booking inside its try block.
PatBookCancelBody(caller, id) ==
    IF ~OwnBooking(caller, id) THEN 404
    ELSE IF bookings[id].status = "cancelled" THEN 400
    ELSE 204

\* DELETE /patients/ambulance-bookings/{id}
PatBookCancel(caller, id) ==
    LET code == CaughtAs500(PatBookCancelBody(caller, id)) IN
    /\ Ready
    /\ bookings' = IF code = 204
                   THEN [bookings EXCEPT ![id] =
                            [@ EXCEPT !.status = "cancelled",
                                      !.cancellation_reason = "set",
                                      !.cancelled_at = "set"]]
                   ELSE bookings
    /\ resp' = Resp("book_cancel", code, NoId)
    /\ UNCHANGED <<authVars, apptVars, inflight, ambulances, dispatch_logs, settings>>

\* Bodies of PUT /staff/ambulance-bookings/{id}: a dict, any column by name.
StaffBookingUpdates ==
    [driver_id : {Unset, "drv1"}, ambulance_id : {Unset, "a1"},
     status : {Unset} \cup AmbulanceStatus] \cup
    { [driver_id |-> Unset, ambulance_id |-> Unset, status |-> "bogus"],
      [driver_id |-> Ghost, ambulance_id |-> Unset, status |-> Unset] }

\* setattr(booking, field, value) for every key of the body.
ApplyBookingUpdate(row, u) ==
    [row EXCEPT !.driver_id = Get(u, "driver_id", @),
                !.ambulance_id = Get(u, "ambulance_id", @),
                !.status = Get(u, "status", @)]

\* db.commit() of a booking row fails on a status that is no member of the
\* enum and on a driver or an ambulance that does not exist.
BookingCommitFails(row) ==
    \/ row.status \notin AmbulanceStatus
    \/ row.driver_id # Null /\ row.driver_id \notin DOMAIN users
    \/ row.ambulance_id # Null /\ row.ambulance_id \notin DOMAIN ambulances

StaffBookUpdateCode(id, u) ==
    IF id \notin DOMAIN bookings THEN 404
    ELSE IF BookingCommitFails(ApplyBookingUpdate(bookings[id], u)) THEN 500
    ELSE 200

\* PUT /staff/ambulance-bookings/{id}, called by a driver or an admin.
StaffBookUpdate(id, u) ==
    LET code == StaffBookUpdateCode(id, u) IN
    /\ Ready
    /\ bookings' = IF code = 200
                   THEN [bookings EXCEPT ![id] = ApplyBookingUpdate(@, u)]
                   ELSE bookings
    /\ resp' = Resp("staff_book_update", code, NoId)
    /\ UNCHANGED <<authVars, apptVars, inflight, ambulances, dispatch_logs, settings>>

\* get_driver_or_404
IsDriver(driver) ==
    driver \in DOMAIN users /\ users[driver].role = "ambulance_driver"

\* What the body of PATCH /drivers/{driver_id}/bookings/{id}/status may carry
\* as "status": member names, a member value, or nothing.
DriverStatusInputs == DOMAIN AmbulanceStatusMembers \cup {"completed", Unset}

\* A check that also refuses to leave a completed or cancelled booking: the
\* variant the code does not have.
DriverStatusCodeTerminalKept(driver, id, new_status) ==
    IF ~IsDriver(driver) THEN 404
    ELSE IF ~(id \in DOMAIN bookings /\ bookings[id].driver_id = driver) THEN 404
    ELSE IF new_status \notin DOMAIN AmbulanceStatusMembers THEN 400
    ELSE IF bookings[id].status \in {"completed", "cancelled"} THEN 400
    ELSE 200

DriverStatusCode(driver, id, new_status) ==
    IF ~IsDriver(driver) THEN 404
    ELSE IF ~(id \in DOMAIN bookings /\ bookings[id].driver_id = driver) THEN 404
    ELSE IF new_status \notin DOMAIN AmbulanceStatusMembers THEN 400
    ELSE 200

\* PATCH /drivers/{driver_id}/bookings/{id}/status
DriverStatus(driver, id, new_status) ==
    LET code == DriverStatusCode(driver, id, new_status) IN
    /\ Ready
    /\ bookings' = IF code = 200
                   THEN [bookings EXCEPT ![id].status = AmbulanceStatusMembers[new_status]]
                   ELSE bookings
    /\ resp' = Resp("driver_status", code, NoId)
    /\ UNCHANGED <<authVars, apptVars, inflight, ambulances, dispatch_logs, settings>>

AmbulanceRow(registration, operational) ==
    [registration_number |-> registration, is_operational |-> operational]

RegistrationTaken(registration) ==
    \E a \in DOMAIN ambulances : ambulances[a].registration_number = registration

\* POST /ambulances/: frontend_status defaults to "Available".
AmbCreate(registration, frontend_status) ==
    LET fs == IF frontend_status = Unset THEN "Available" ELSE frontend_status IN
    /\ Ready
    /\ IF RegistrationTaken(registration)
       THEN /\ resp' = Resp("amb_create", 400, NoId)
            /\ UNCHANGED ambulances
       ELSE \E a \in AmbulanceIds \ DOMAIN ambulances :
            /\ ambulances' = [i \in DOMAIN ambulances \cup {a} |->
                                 IF i = a THEN AmbulanceRow(registration, IsOperational(fs))
                                 ELSE ambulances[i]]
            /\ resp' = Resp("amb_create", 201, NoId)
    /\ UNCHANGED <<authVars, apptVars, inflight, bookings, dispatch_logs, settings>>

\* Bodies of PUT /ambulances/{id}: a dict; is_operational as the JSON literal.
AmbUpdateReqs ==
    [registration_number : {Unset} \cup Registrations,
     frontend_status : {Unset, "Available", "In Repair"},
     is_operational : {Unset, "true", "false"}]

\* The is_operational the update loop sets: from frontend_status when the body
\* has one, else from the body's own is_operational, else the stored one.
AmbUpdateOperational(row, u) ==
    IF u.frontend_status # Unset THEN IsOperational(u.frontend_status)
    ELSE IF u.is_operational # Unset THEN u.is_operational = "true"
    ELSE row.is_operational

AmbUpdateCode(id, u) ==
    IF id \notin DOMAIN ambulances THEN 404
    ELSE IF /\ u.registration_number # Unset
            /\ u.registration_number # ambulances[id].registration_number
            /\ RegistrationTaken(u.registration_number) THEN 400
    ELSE 200

\* PUT /ambulances/{id}: sets the columns and touches no booking.
AmbUpdate(id, u) ==
    LET code == AmbUpdateCode(id, u) IN
    /\ Ready
    /\ ambulances' = IF code = 200
                     THEN [ambulances EXCEPT ![id] =
                              AmbulanceRow(Get(u, "registration_number", @.registration_number),
                                           AmbUpdateOperational(@, u))]
                     ELSE ambulances
    /\ resp' = Resp("amb_update", code, NoId)
    /\ UNCHANGED <<authVars, apptVars, inflight, bookings, dispatch_logs, settings>>

\* What the body of PATCH /ambulances/{id}/status may carry as "status".
AmbStatusInputs == FrontendStatuses \cup {"Maintenance", Unset}

AmbStatusCode(id, status_value) ==
    IF id \notin DOMAIN ambulances THEN 404
    ELSE IF status_value = Unset THEN 400
    ELSE 200

\* The cascade of update_ambulance_status: every active booking of the
\* ambulance gets status "cancelled" and cancelled_at.
CancelActive(id) ==
    [b \in DOMAIN bookings |->
        IF b \in ActiveBookings(id)
        THEN [bookings[b] EXCEPT !.status = "cancelled", !.cancelled_at = "set"]
        ELSE bookings[b]]

\* PATCH /ambulances/{id}/status
AmbStatus(id, status_value) ==
    LET code == AmbStatusCode(id, status_value) IN
    /\ Ready
    /\ ambulances' = IF code = 200
                     THEN [ambulances EXCEPT ![id].is_operational = IsOperational(status_value)]
                     ELSE ambulances
    /\ bookings' = IF code = 200 /\ status_value \in CascadeStatuses
                   THEN CancelActive(id)
                   ELSE bookings
    /\ resp' = Resp("amb_status", code, NoId)
    /\ UNCHANGED <<authVars, apptVars, inflight, dispatch_logs, settings>>

\* A delete that does not look for active bookings: the variant the code does
\* not have.
AmbDeleteCodeUnchecked(id) ==
    IF id \notin DOMAIN ambulances THEN 404 ELSE 204

\* delete_ambulance: 404 for no such ambulance, 400 with an active booking.
AmbDeleteCode(id) ==
    IF id \notin DOMAIN ambulances THEN 404
    ELSE IF ActiveBookings(id) # {} THEN 400
    ELSE 204

\* DELETE /ambulances/{id}: Ambulance.bookings is a relationship without a
\* delete cascade, so the session sets ambulance_id of the bookings of the
\* deleted ambulance to NULL before it deletes the row.
AmbDelete(id) ==
    LET code == AmbDeleteCode(id) IN
    /\ Ready
    /\ ambulances' = IF code = 204
                     THEN [i \in DOMAIN ambulances \ {id} |-> ambulances[i]]
                     ELSE ambulances
    /\ bookings' = IF code = 204
                   THEN [b \in DOMAIN bookings |->
                            IF bookings[b].ambulance_id = id
                            THEN [bookings[b] EXCEPT !.ambulance_id = Null]
                            ELSE bookings[b]]
                   ELSE bookings
    /\ resp' = Resp("amb_delete", code, NoId)
    /\ UNCHANGED <<authVars, apptVars, inflight, dispatch_logs, settings>>

\* A projection that shows Occupied for a transporting booking only: the
\* variant the code does not have.
FrontendStatusTransportingOnly(a, found) ==
    IF ~ambulances[a].is_operational THEN "Unavailable"
    ELSE IF found = NoId THEN "Available"
    ELSE IF bookings[found].status = "transporting" THEN "Occupied"
    ELSE "In Transit"

\* The frontend_status get_ambulance and list_ambulances compute for
\* ambulance a; found is the row .first() of the active-bookings query
\* returned, NoId for none.
FrontendStatus(a, found) ==
    IF ~ambulances[a].is_operational THEN "Unavailable"
    ELSE IF found = NoId THEN "Available"
    ELSE IF bookings[found].status \in {"transporting", "arrived_pickup"} THEN "Occupied"
    ELSE "In Transit"

\* GET /ambulances/{id}: the query has no ORDER BY, so .first() may return any
\* of the active bookings of the ambulance.
AmbGet(id) ==
    /\ Ready
    /\ IF id \notin DOMAIN ambulances
       THEN resp' = Resp("amb_get", 404, NoId)
       ELSE \E found \in (IF ActiveBookings(id) = {} THEN {NoId} ELSE ActiveBookings(id)) :
               resp' = [Resp("amb_get", 200, NoId) EXCEPT
                           !.message = FrontendStatus(id, found)]
    /\ UNCHANGED <<authVars, apptVars, inflight, dispatchVars, settings>>

NextDispatch ==
    \/ \E p \in Bookers, req \in BookingCreateReqs : PatBookCreate(p, req)
    \/ \E p \in Patients, id \in BookingIds : PatBookUpdate(p, id)
    \/ \E p \in Patients, id \in BookingIds : PatBookCancel(p, id)
    \/ \E id \in BookingIds, u \in StaffBookingUpdates : StaffBookUpdate(id, u)
    \/ \E d \in Drivers \cup {"p1"}, id \in BookingIds, st \in DriverStatusInputs :
          DriverStatus(d, id, st)
    \/ \E r \in Registrations, fs \in {Unset} \cup FrontendStatuses : AmbCreate(r, fs)
    \/ \E a \in AmbulanceIds, u \in AmbUpdateReqs : AmbUpdate(a, u)
    \/ \E a \in AmbulanceIds, st \in AmbStatusInputs : AmbStatus(a, st)
    \/ \E a \in AmbulanceIds : AmbDelete(a)
    \/ \E a \in AmbulanceIds : AmbGet(a)
    \/ Return

SpecDispatch == InitTables /\ [][NextDispatch]_vars

-----------------------------------------------------------------------------
(* Properties of the ambulance and booking routes.                            *)

\* The step is refused and leaves the status of booking b as it was.
StatusKept(b) == resp'.code >= 400 /\ bookings'[b].status = bookings[b].status

\* C2: once a booking is completed or cancelled, every later call that asks
\* for another status (the driver's update_booking_status, the staff
\* update_ambulance_booking with a status) or cancels it (the patient's
\* cancel_ambulance_booking) fails and leaves the status unchanged.
C2_TerminalBookingFrozen ==
    [][\A b \in DOMAIN bookings :
         bookings[b].status \in {"completed", "cancelled"} =>
            /\ \A d \in Drivers, st \in DOMAIN AmbulanceStatusMembers :
                  (/\ AmbulanceStatusMembers[st] # bookings[b].status
                   /\ DriverStatus(d, b, st)) => StatusKept(b)
            /\ \A p \in Patients : PatBookCancel(p, b) => StatusKept(b)
            /\ \A u \in StaffBookingUpdates :
                  (/\ u.status \notin {Unset, bookings[b].status}
                   /\ StaffBookUpdate(b, u)) => StatusKept(b)]_vars

\* C3: whenever a step leaves an ambulance with is_operational false that had
\* it true, every booking of that ambulance that was in the active set is
\* cancelled after the step, with cancelled_at set.
C3_NonOperationalCascades ==
    [][\A a \in DOMAIN ambulances :
         (/\ a \in DOMAIN ambulances'
          /\ ambulances[a].is_operational
          /\ ~ambulances'[a].is_operational)
         => \A b \in ActiveBookings(a) :
               /\ bookings'[b].status = "cancelled"
               /\ bookings'[b].cancelled_at # Null]_vars

\* The bookings whose status the step has written to another value.
StatusWritten ==
    { b \in DOMAIN bookings : bookings'[b].status # bookings[b].status }

\* C4: every step appends to the dispatch log one row for each booking whose
\* status it wrote, holding that booking's previous and new status, and
\* appends nothing else.
C4_StatusWritesLogged ==
    [][/\ Len(dispatch_logs') = Len(dispatch_logs) + Cardinality(StatusWritten)
       /\ \A b \in StatusWritten :
             \E k \in (Len(dispatch_logs) + 1)..Len(dispatch_logs') :
                /\ dispatch_logs'[k].ambulance_booking_id = b
                /\ dispatch_logs'[k].previous_status = bookings[b].status
                /\ dispatch_logs'[k].new_status = bookings'[b].status]_vars

-----------------------------------------------------------------------------
(* Accounts: signup, login, one-time codes, activation.                       *)

\* Ids a signup may give the user it creates.
NewUserIds == {"n1"}

\* What generate_otp may return, and what a caller may type.
OtpCodes == {"111111", "222222"}

Passwords == {"pw1", "pw2"}

\* email_or_phone of the requests: the new user's email, their phone, nobody's.
Identifiers == {Email("n1"), Phone("n1"), Email(Ghost)}

\* query(User).filter((email == x) | (phone == x)).first(); NoUser for None.
NoUser == "nouser"
FindUser(ident) ==
    IF \E u \in DOMAIN users : users[u].email = ident \/ users[u].phone = ident
    THEN CHOOSE u \in DOMAIN users : users[u].email = ident \/ users[u].phone = ident
    ELSE NoUser

AuthResp(op, code, tokens) == [Resp(op, code, NoId) EXCEPT !.tokens = tokens]

\* create_access_token: the claims of data and "exp", "type".
create_access_token(data) == data \cup {"exp", "type"}

\* create_refresh_token: the claims of data and "exp", "type".
create_refresh_token(data) == data \cup {"exp", "type"}

\* The access and refresh token a successful signup or login returns: the
\* access token is made from access_data, the refresh token from {"sub"}.
TokenPair(access_data) ==
    [access |-> create_access_token(access_data),
     refresh |-> create_refresh_token({"sub"})]

\* send_email_otp / send_sms_otp are queued for these methods only.
Sends(method) == method \in {"email", "sms"}
Methods == {"email", "fax"}

\* validate_email(...).email: the address in its normal form; an address
\* written with another spelling of the same mailbox becomes that form.
validate_email(email) == <<"email", email[2]>>

\* UserSignupRequest.validate_phone: spaces and dashes are removed.
validate_phone(phone) == <<"phone", phone[2]>>

SignupReqs ==
    [email : {Email("n1"), Email("p1"), <<"e-mail", "n1">>},
     phone : {Phone("n1"), Phone("p1"), <<"pho-ne", "n1">>},
     role : {"patient", "doctor"}, password : {"pw1"}]

\* A duplicate check that looks at the email only: the variant the code does
\* not have.
SignupCodeEmailOnly(req) ==
    IF \E u \in DOMAIN users : users[u].email = validate_email(req.email)
    THEN 409
    ELSE 201

\* signup up to its duplicate check: 409 when a user has the email or the
\* phone.
SignupCode(req) ==
    IF \E u \in DOMAIN users :
          \/ users[u].email = validate_email(req.email)
          \/ users[u].phone = validate_phone(req.phone)
    THEN 409
    ELSE 201

\* POST /auth/signup
Signup(req) ==
    /\ Ready
    /\ IF SignupCode(req) = 409
       THEN /\ resp' = AuthResp("signup", 409, NoTokens)
            /\ UNCHANGED authVars
       ELSE \E id \in NewUserIds \ DOMAIN users, otp \in OtpCodes :
            /\ users' = [u \in DOMAIN users \cup {id} |->
                  IF u = id
                  THEN [email |-> validate_email(req.email),
                        phone |-> validate_phone(req.phone), role |-> req.role,
                        password |-> hash_password(req.password), otp |-> otp,
                        is_active |-> TRUE, email_verified_at |-> Null,
                        phone_verified_at |-> Null, last_login_at |-> 0]
                  ELSE users[u]]
            /\ profiles' = [u \in DOMAIN users \cup {id} |->
                  IF u = id THEN ProfileKind(req.role) ELSE profiles[u]]
            /\ outbox' = [u \in DOMAIN users \cup {id} |->
                  IF u = id THEN otp ELSE outbox[u]]
            /\ template_type' = [u \in DOMAIN users \cup {id} |->
                  IF u = id THEN "verification" ELSE template_type[u]]
            /\ resp' = AuthResp("signup", 201, TokenPair({"sub", "role"}))
    /\ UNCHANGED <<apptVars, inflight, dispatchVars, settings>>

\* A login that does not look at is_active: the variant the code does not have.
LoginCodeAnyAccount(ident, password) ==
    LET u == FindUser(ident) IN
    IF u = NoUser THEN 401
    ELSE IF ~verify_password(password, users[u].password) THEN 401
    ELSE 200

LoginCode(ident, password) ==
    LET u == FindUser(ident) IN
    IF u = NoUser THEN 401
    ELSE IF ~verify_password(password, users[u].password) THEN 401
    ELSE IF ~users[u].is_active THEN 403
    ELSE 200

\* POST /auth/login: last_login_at is the time of the login, here the number
\* of the login.
Login(ident, password) ==
    LET code == LoginCode(ident, password)
        u == FindUser(ident) IN
    /\ Ready
    /\ code = 200 => users[u].last_login_at < MaxLogins
    /\ users' = IF code = 200
                THEN [users EXCEPT ![u].last_login_at = @ + 1]
                ELSE users
    /\ resp' = AuthResp("login", code,
                        IF code = 200 THEN TokenPair({"sub", "role", "email"})
                        ELSE NoTokens)
    /\ UNCHANGED <<profiles, outbox, template_type, apptVars, inflight, dispatchVars, settings>>

\* A check that accepts any code while one is stored: the variant the code
\* does not have.
OtpCodeAnyStored(ident, otp) ==
    LET u == FindUser(ident) IN
    IF u = NoUser THEN 404
    ELSE IF users[u].otp = Null THEN 400
    ELSE 200

\* A check that refuses a code whose message was sent with the password_reset
\* template: the variant the code does not have.
OtpCodeVerificationOnly(ident, otp) ==
    LET u == FindUser(ident) IN
    IF u = NoUser THEN 404
    ELSE IF users[u].otp = Null \/ users[u].otp # otp THEN 400
    ELSE IF template_type[u] = "password_reset" THEN 400
    ELSE 200

\* The check verify_otp and reset_password share.
OtpCode(ident, otp) ==
    LET u == FindUser(ident) IN
    IF u = NoUser THEN 404
    ELSE IF users[u].otp = Null \/ users[u].otp # otp THEN 400
    ELSE 200

VerificationTypes == {"email", "phone", "both"}

\* A verify_otp that leaves the stored code in place: the variant the code
\* does not have.
VerifiedKeepsOtp(row, verification_type) ==
    [row EXCEPT !.email_verified_at =
                    IF verification_type = "phone" THEN @ ELSE "set",
                !.phone_verified_at =
                    IF verification_type = "email" THEN @ ELSE "set"]

\* A verify_otp that marks email and phone verified whatever the type: the
\* variant the code does not have.
VerifiedBoth(row, verification_type) ==
    [row EXCEPT !.email_verified_at = "set", !.phone_verified_at = "set",
                !.otp = Null]

\* The row verify_otp commits for a matching code.
Verified(row, verification_type) ==
    [row EXCEPT !.email_verified_at =
                    IF verification_type = "phone" THEN @ ELSE "set",
                !.phone_verified_at =
                    IF verification_type = "email" THEN @ ELSE "set",
                !.otp = Null]

\* POST /auth/verify-otp
VerifyOtp(ident, otp, verification_type) ==
    LET code == OtpCode(ident, otp)
        u == FindUser(ident) IN
    /\ Ready
    /\ users' = IF code = 200
                THEN [users EXCEPT ![u] = Verified(@, verification_type)]
                ELSE users
    /\ resp' = AuthResp("verify_otp", code, NoTokens)
    /\ UNCHANGED <<profiles, outbox, template_type, apptVars, inflight, dispatchVars, settings>>

\* What resend_otp and forgot_password do for a user they found: store a new
\* code, queue its message with the template of the route.
IssueOtp(u, otp, method, template) ==
    /\ users' = [users EXCEPT ![u].otp = otp]
    /\ outbox' = IF Sends(method) THEN [outbox EXCEPT ![u] = otp] ELSE outbox
    /\ template_type' = IF Sends(method)
                        THEN [template_type EXCEPT ![u] = template]
                        ELSE template_type

\* POST /auth/resend-otp
ResendOtp(ident, method) ==
    LET u == FindUser(ident) IN
    /\ Ready
    /\ IF u = NoUser
       THEN /\ resp' = AuthResp("resend_otp", 404, NoTokens)
            /\ UNCHANGED <<users, outbox, template_type>>
       ELSE /\ \E otp \in OtpCodes : IssueOtp(u, otp, method, "verification")
            /\ resp' = AuthResp("resend_otp", 200, NoTokens)
    /\ UNCHANGED <<profiles, apptVars, inflight, dispatchVars, settings>>

\* The "message" of the body forgot_password returns: one text when no user
\* has the identifier, another when one has.
ForgotPasswordMessage(u) ==
    IF u = NoUser
    THEN "If the account exists, password reset instructions have been sent"
    ELSE "Password reset instructions sent successfully"

\* What the caller of forgot_password sees: status code and body.
ForgotPasswordResp(ident) ==
    [AuthResp("forgot_password", 200, NoTokens) EXCEPT
        !.message = ForgotPasswordMessage(FindUser(ident))]

\* POST /auth/forgot-password
ForgotPassword(ident, method) ==
    LET u == FindUser(ident) IN
    /\ Ready
    /\ IF u = NoUser
       THEN UNCHANGED <<users, outbox, template_type>>
       ELSE \E otp \in OtpCodes : IssueOtp(u, otp, method, "password_reset")
    /\ resp' = ForgotPasswordResp(ident)
    /\ UNCHANGED <<profiles, apptVars, inflight, dispatchVars, settings>>

\* POST /auth/reset-password
ResetPassword(ident, otp, new_password) ==
    LET code == OtpCode(ident, otp)
        u == FindUser(ident) IN
    /\ Ready
    /\ users' = IF code = 200
                THEN [users EXCEPT ![u].password = hash_password(new_password),
                                   ![u].otp = Null]
                ELSE users
    /\ resp' = AuthResp("reset_password", code, NoTokens)
    /\ UNCHANGED <<profiles, outbox, template_type, apptVars, inflight, dispatchVars, settings>>

\* PATCH /admin/users/{user_id}/status
UpdateUserStatus(user_id, is_active) ==
    /\ Ready
    /\ IF user_id \in DOMAIN users
       THEN /\ users' = [users EXCEPT ![user_id].is_active = is_active]
            /\ resp' = AuthResp("update_user_status", 200, NoTokens)
       ELSE /\ UNCHANGED users
            /\ resp' = AuthResp("update_user_status", 404, NoTokens)
    /\ UNCHANGED <<profiles, outbox, template_type, apptVars, inflight, dispatchVars, settings>>

\* get_current_user for a token naming user_id: 401 for no such user, 403 for
\* a deactivated one.
CurrentUserCode(user_id) ==
    IF user_id \notin DOMAIN users THEN 401
    ELSE IF ~users[user_id].is_active THEN 403
    ELSE 200

\* POST /auth/deactivate-account
DeactivateAccount(user_id) ==
    LET code == CurrentUserCode(user_id) IN
    /\ Ready
    /\ users' = IF code = 200
                THEN [users EXCEPT ![user_id].is_active = FALSE]
                ELSE users
    /\ resp' = AuthResp("deactivate_account", code, NoTokens)
    /\ UNCHANGED <<profiles, outbox, template_type, apptVars, inflight, dispatchVars, settings>>

ReactivateCode(ident, password) ==
    LET u == FindUser(ident) IN
    IF u = NoUser THEN 404
    ELSE IF ~verify_password(password, users[u].password) THEN 401
    ELSE 200

\* POST /auth/reactivate-account
ReactivateAccount(ident, password) ==
    LET code == ReactivateCode(ident, password)
        u == FindUser(ident) IN
    /\ Ready
    /\ users' = IF code = 200
                THEN [users EXCEPT ![u].is_active = TRUE]
                ELSE users
    /\ resp' = AuthResp("reactivate_account", code, NoTokens)
    /\ UNCHANGED <<profiles, outbox, template_type, apptVars, inflight, dispatchVars, settings>>

\* POST /auth/refresh-token with a refresh token whose "sub" is user_id: 401
\* for no such user or an inactive one, else a new access token and no
\* refresh token.
RefreshToken(user_id) ==
    LET code == IF user_id \notin DOMAIN users \/ ~users[user_id].is_active
                THEN 401 ELSE 200 IN
    /\ Ready
    /\ resp' = AuthResp("refresh_token", code,
                        IF code = 200
                        THEN [access |-> create_access_token({"sub", "role", "email"}),
                              refresh |-> {}]
                        ELSE NoTokens)
    /\ UNCHANGED <<authVars, apptVars, inflight, dispatchVars, settings>>

NextAuth ==
    \/ \E req \in SignupReqs : Signup(req)
    \/ \E i \in Identifiers, pw \in Passwords : Login(i, pw)
    \/ \E i \in Identifiers, otp \in OtpCodes, t \in VerificationTypes :
          VerifyOtp(i, otp, t)
    \/ \E i \in Identifiers, m \in Methods : ResendOtp(i, m)
    \/ \E i \in Identifiers, m \in Methods : ForgotPassword(i, m)
    \/ \E i \in Identifiers, otp \in OtpCodes, pw \in Passwords :
          ResetPassword(i, otp, pw)
    \/ \E u \in NewUserIds \cup {Ghost}, b \in BOOLEAN : UpdateUserStatus(u, b)
    \/ \E u \in NewUserIds \cup {Ghost} : DeactivateAccount(u)
    \/ \E i \in Identifiers, pw \in Passwords : ReactivateAccount(i, pw)
    \/ \E u \in NewUserIds \cup {Ghost} : RefreshToken(u)
    \/ Return

SpecAuth == InitTables /\ [][NextAuth]_vars

-----------------------------------------------------------------------------
(* Properties of the account routes.                                          *)

\* What a verify_otp step does with the code it is given for user u.
VerifySpends(u) ==
    \A i \in Identifiers, c \in OtpCodes, t \in VerificationTypes :
        (FindUser(i) = u /\ VerifyOtp(i, c, t)) =>
            IF users[u].otp = c
            THEN resp'.code = 200 /\ users'[u].otp = Null
            ELSE resp'.code = 400 /\ users' = users

\* The step re-issues a code.
Reissued == resp'.op \in {"resend_otp", "forgot_password"}

C6_InactiveLoginRefused ==
    [][\A i \in Identifiers, pw \in Passwords :
         (/\ FindUser(i) # NoUser
          /\ ~users[FindUser(i)].is_active
          /\ verify_password(pw, users[FindUser(i)].password)
          /\ Login(i, pw))
         => /\ resp' = AuthResp("login", 403, NoTokens)
            /\ users' = users]_vars

\* A deactivated user has just been refused a login with the right password.
C6_InactiveLoginSeen ==
    /\ resp = AuthResp("login", 403, NoTokens)
    /\ "n1" \in DOMAIN users
    /\ ~users["n1"].is_active

\* C11: two forgot_password requests that differ only in whether the
\* identifier belongs to a user get the same response, status code and body.
C11_ForgotPasswordUniform ==
    \A i1, i2 \in Identifiers :
        (FindUser(i1) = NoUser /\ FindUser(i2) # NoUser) =>
            ForgotPasswordResp(i1) = ForgotPasswordResp(i2)

\* C16: a signup whose email or phone equals that of an existing user is
\* answered 409 and creates neither a user nor a profile; no two users ever
\* share an email or a phone.
C16_SignupKeepsIdentifiersUnique ==
    [][/\ \A req \in SignupReqs :
            ( /\ Signup(req)
              /\ \E u \in DOMAIN users :
                    \/ users[u].email = validate_email(req.email)
                    \/ users[u].phone = validate_phone(req.phone) )
            => resp'.code = 409 /\ UNCHANGED <<users, profiles>>
       /\ \A u, v \in DOMAIN users' :
            u # v => /\ users'[u].email # users'[v].email
                     /\ users'[u].phone # users'[v].phone]_vars

\* A signup that repeats the email or the phone of the user signed up before
\* it has been answered 409.
C16_DuplicateRefused ==
    /\ resp.op = "signup" /\ resp.code = 409
    /\ "n1" \in DOMAIN users
    /\ users["n1"].email = Email("n1") /\ users["n1"].phone = Phone("n1")

\* C17: on the patient routes an id that does not exist for the caller is
\* answered 404, an update of a completed or cancelled record and a second
\* cancellation are answered 400, and 500 is kept for unhandled failures.
C17_PatientRouteCodes ==
    [][\A p \in Patients, id \in AppointmentIds :
        /\ PatCancel(p, id) =>
              resp'.code = IF ~OwnAppointment(p, id) THEN 404
                           ELSE IF appointments[id].status = "cancelled" THEN 400
                           ELSE 204
        /\ \A u \in PatUpdateReqs : PatUpdate(p, id, u) =>
              resp'.code = IF ~OwnAppointment(p, id) THEN 404
                           ELSE IF appointments[id].status \in {"completed", "cancelled"}
                                THEN 400
                           ELSE 200]_vars

\* C18: creating an ambulance with, or changing an ambulance to, a
\* registration number another ambulance holds is answered 409 and leaves the
\* ambulances as they were.
C18_DuplicateRegistrationConflict ==
    [][/\ \A r \in Registrations, fs \in {Unset} \cup FrontendStatuses :
            (AmbCreate(r, fs) /\ RegistrationTaken(r))
            => resp'.code = 409 /\ UNCHANGED ambulances
       /\ \A a \in DOMAIN ambulances, u \in AmbUpdateReqs :
            ( /\ AmbUpdate(a, u)
              /\ \E o \in DOMAIN ambulances \ {a} :
                    ambulances[o].registration_number = u.registration_number )
            => resp'.code = 409 /\ UNCHANGED ambulances]_vars

\* C19: an OTP issuance (resend_otp, forgot_password for an existing user)
\* replaces the stored code: afterwards the user has exactly one code, the one
\* just issued, and verify_otp and reset_password reject every other code,
\* a code issued before included.
C19_IssuanceReplacesCode ==
    [][/\ \A i \in Identifiers, m \in Methods :
            ((ResendOtp(i, m) \/ ForgotPassword(i, m)) /\ FindUser(i) # NoUser)
            => LET u == FindUser(i) IN
               /\ users'[u].otp \in OtpCodes
               /\ Sends(m) => outbox'[u] = users'[u].otp
               /\ \A c \in OtpCodes \ {users'[u].otp} : OtpCode(i, c)' = 400
       /\ \A i \in Identifiers, c \in OtpCodes :
            ( /\ FindUser(i) # NoUser
              /\ c # users[FindUser(i)].otp
              /\ \/ \E t \in VerificationTypes : VerifyOtp(i, c, t)
                 \/ \E pw \in Passwords : ResetPassword(i, c, pw) )
            => resp'.code = 400 /\ users' = users]_vars

\* A code was issued and sent, another issuance replaced it, and a
\* verify_otp or reset_password has then been answered 400.
C19_OldCodeRejected ==
    /\ "n1" \in DOMAIN users
    /\ users["n1"].otp \in OtpCodes
    /\ outbox["n1"] \in OtpCodes \ {users["n1"].otp}
    /\ resp.op \in {"verify_otp", "reset_password"} /\ resp.code = 400

\* C20: every token that signup, login and refresh-token issue, access and
\* refresh alike, carries sub, role, exp and type.
C20_TokensCarryClaims ==
    resp.op \in {"signup", "login", "refresh_token"} =>
        \A kind \in DOMAIN resp.tokens :
            resp.tokens[kind] # {} =>
                {"sub", "role", "exp", "type"} \subseteq resp.tokens[kind]

-----------------------------------------------------------------------------
\* Who calls: the routes with their authorisation dependencies. A caller is a
\* user id carried by a valid access token, or "anon" for a request whose
\* token names nobody.
Callers == {"anon", "p1", "d1", "drv1"}

\* get_current_user of app.utils.auth followed by the role check of
\* require_roles / require_patient: 401 for no user, 403 for a deactivated
\* user or a role outside allowed_roles.
RequireRolesCode(caller, allowed_roles) ==
    IF CurrentUserCode(caller) # 200 THEN CurrentUserCode(caller)
    ELSE IF users[caller].role \notin allowed_roles THEN 403
    ELSE 200

\* POST /patients/ambulance-bookings behind Depends(require_patient).
PatBookCreateBy(caller, req) ==
    LET code == RequireRolesCode(caller, {"patient"}) IN
    IF code = 200
    THEN PatBookCreate(caller, req)
    ELSE /\ Ready
         /\ resp' = Resp("book_create", code, NoId)
         /\ UNCHANGED <<authVars, apptVars, inflight, dispatchVars, settings>>

\* require_roles of the staff router: its get_current_user is the one of
\* app.utils, which answers 401 for no user and does not read is_active; 403
\* for a role outside allowed_roles.
StaffRequireRoles(caller, allowed_roles) ==
    IF caller \notin DOMAIN users THEN 401
    ELSE IF users[caller].role \notin allowed_roles THEN 403
    ELSE 200

\* PUT /staff/ambulance-bookings/{id} behind
\* Depends(require_roles([AMBULANCE_DRIVER, ADMIN])).
StaffBookUpdateBy(caller, id, u) ==
    LET code == StaffRequireRoles(caller, {"ambulance_driver", "admin"}) IN
    IF code = 200
    THEN StaffBookUpdate(id, u)
    ELSE /\ Ready
         /\ resp' = Resp("staff_book_update", code, NoId)
         /\ UNCHANGED <<authVars, apptVars, inflight, dispatchVars, settings>>

\* PATCH /drivers/{driver_id}/bookings/{id}/status: the route declares no
\* dependency but the database session, so the caller plays no part.
DriverStatusBy(caller, driver, id, new_status) ==
    DriverStatus(driver, id, new_status)

\* PATCH /drivers/{driver_id}/status: no dependency on the caller either.
\* is_active is the body's value, Unset when the key is missing.
UpdateDriverStatusBy(caller, driver, is_active) ==
    LET code == IF ~IsDriver(driver) THEN 404
                ELSE IF is_active = Unset THEN 400
                ELSE 200 IN
    /\ Ready
    /\ users' = IF code = 200
                THEN [users EXCEPT ![driver].is_active = (is_active = "true")]
                ELSE users
    /\ resp' = Resp("update_driver_status", code, NoId)
    /\ UNCHANGED <<profiles, outbox, template_type, apptVars, inflight, dispatchVars, settings>>

\* PATCH /users/{user_id}/status: "Admin only" in its docstring, no dependency
\* on the caller in its signature.
UpdateUserStatusBy(caller, user_id, is_active) ==
    UpdateUserStatus(user_id, is_active)

NextAccess ==
    \/ \E caller \in Callers, req \in BookingCreateReqs : PatBookCreateBy(caller, req)
    \/ \E caller \in Callers, id \in BookingIds, u \in StaffBookingUpdates :
            StaffBookUpdateBy(caller, id, u)
    \/ \E caller \in Callers, driver \in {"drv1", "p1"}, id \in BookingIds,
          new_status \in DriverStatusInputs :
            DriverStatusBy(caller, driver, id, new_status)
    \/ \E caller \in Callers, driver \in {"drv1", "p1"},
          is_active \in {"true", "false", Unset} :
            UpdateDriverStatusBy(caller, driver, is_active)
    \/ \E caller \in Callers, user_id \in {"p1", Ghost}, is_active \in BOOLEAN :
            UpdateUserStatusBy(caller, user_id, is_active)
    \/ \E user_id \in {"drv1", "p1"} : RefreshToken(user_id)
    \/ Return

SpecAccess == InitTables /\ [][NextAccess]_vars

\* C12: a state-changing endpoint succeeds only for a caller with a valid
\* token and an allowed role: the driver booking-status update, the driver
\* activate/deactivate and the admin user-status update change no table when
\* the caller has no valid token or has another role.
C12_WritesNeedAllowedCaller ==
    [][\A caller \in Callers :
        LET Refusable(allowed_roles) == RequireRolesCode(caller, allowed_roles) # 200 IN
        ( \/ /\ Refusable({"ambulance_driver"})
             /\ \E driver \in {"drv1", "p1"}, id \in BookingIds,
                   new_status \in DriverStatusInputs :
                     DriverStatusBy(caller, driver, id, new_status)
          \/ /\ Refusable({"admin"})
             /\ \E driver \in {"drv1", "p1"}, is_active \in {"true", "false", Unset} :
                     UpdateDriverStatusBy(caller, driver, is_active)
          \/ /\ Refusable({"admin"})
             /\ \E user_id \in {"p1", Ghost}, is_active \in BOOLEAN :
                     UpdateUserStatusBy(caller, user_id, is_active) )
        => UNCHANGED <<authVars, apptVars, dispatchVars, settings>>]_vars

\* C13: whenever the status of a booking becomes assigned, the resulting row
\* names a driver or an ambulance and has assigned_at set.
C13_AssignedHasResourceAndStamp ==
    [][\A b \in DOMAIN bookings :
        (b \in DOMAIN bookings' /\ bookings[b].status # "assigned"
            /\ bookings'[b].status = "assigned")
        => /\ bookings'[b].driver_id # Null \/ bookings'[b].ambulance_id # Null
           /\ bookings'[b].assigned_at # Null]_vars

\* C14: whenever the status of a booking becomes en_route_pickup,
\* arrived_pickup, transporting, en_route_hospital, arrived_hospital or
\* completed, the timestamp column of that status is set.
C14_ProgressStamped ==
    [][\A b \in DOMAIN bookings :
        \A s \in DOMAIN StatusStamp \ {"assigned", "cancelled"} :
            (b \in DOMAIN bookings' /\ bookings[b].status # s
                /\ bookings'[b].status = s)
            => bookings'[b][StatusStamp[s]] # Null]_vars

\* C15: every operation that moves a booking to cancelled records a
\* cancellation reason and sets cancelled_at, so a cancelled booking always
\* has cancelled_at (and a reason) set.
C15_CancelledStampedWithReason ==
    \A b \in DOMAIN bookings :
        bookings[b].status = "cancelled"
        => /\ bookings[b][StatusStamp["cancelled"]] # Null
           /\ bookings[b].cancellation_reason # Null

\* C21: update_booking_status of the drivers router applies the requested
\* status whatever the current status of the booking is: the booking may move
\* backward in the lifecycle or skip states, no forward-only order is kept.
C21_DriverStatusAnyOrder ==
    [][\A d \in Drivers, id \in DOMAIN bookings, st \in DOMAIN AmbulanceStatusMembers :
        (resp'.op = "driver_status" /\ bookings[id].driver_id = d
            /\ DriverStatus(d, id, st))
        => /\ resp'.code = 200
           /\ bookings'[id].status = AmbulanceStatusMembers[st]]_vars

\* The driver's update has been answered 200 on a booking that was cancelled
\* before and is "requested" again.
C21_MovedBackward ==
    /\ resp.op = "driver_status" /\ resp.code = 200
    /\ \E b \in DOMAIN bookings :
          /\ bookings[b].status = "requested"
          /\ bookings[b].driver_id \in Drivers
          /\ bookings[b].cancelled_at # Null

\* C22: verify_otp changes the user row only when the code given equals the
\* stored, non-empty code: it then sets email_verified_at only (type email),
\* phone_verified_at only (type phone) or both (any other type) and clears
\* the code; otherwise it answers 404 (no user) or 400 (mismatch) and leaves
\* otp, email_verified_at and phone_verified_at as they were.
C22_VerifyOtpFrame ==
    [][\A i \in Identifiers, c \in OtpCodes, t \in VerificationTypes :
        (resp'.op = "verify_otp" /\ VerifyOtp(i, c, t))
        => LET u == FindUser(i) IN
           IF u # NoUser /\ users[u].otp # Null /\ users[u].otp = c
           THEN /\ resp'.code = 200
                /\ users' = [users EXCEPT
                      ![u].otp = Null,
                      ![u].email_verified_at = IF t = "phone" THEN @ ELSE "set",
                      ![u].phone_verified_at = IF t = "email" THEN @ ELSE "set"]
           ELSE /\ resp'.code = IF u = NoUser THEN 404 ELSE 400
                /\ users' = users]_vars

\* A verify_otp of type email has been answered 200: the email is verified,
\* the phone is not, the code is cleared.
C22_EmailOnlyVerified ==
    /\ resp.op = "verify_otp" /\ resp.code = 200
    /\ "n1" \in DOMAIN users
    /\ users["n1"].email_verified_at = "set"
    /\ users["n1"].phone_verified_at = Null
    /\ users["n1"].otp = Null

\* C23: the frontend_status get_ambulance and list_ambulances return is
\* Unavailable for an ambulance that is not operational; otherwise Occupied
\* when the active booking found for it is transporting or arrived_pickup,
\* In Transit when it has another active status, and Available when the
\* ambulance has no active booking.
C23_AvailabilityProjection ==
    [][\A a \in DOMAIN ambulances :
        (resp'.op = "amb_get" /\ AmbGet(a))
        => /\ resp'.code = 200
           /\ IF ~ambulances[a].is_operational THEN resp'.message = "Unavailable"
              ELSE IF ActiveBookings(a) = {} THEN resp'.message = "Available"
              ELSE \E b \in ActiveBookings(a) :
                     resp'.message =
                        IF bookings[b].status \in {"transporting", "arrived_pickup"}
                        THEN "Occupied"
                        ELSE "In Transit"]_vars

\* get_ambulance has answered Occupied for an ambulance whose one active
\* booking is arrived_pickup.
C23_OccupiedAtPickup ==
    /\ resp.op = "amb_get" /\ resp.message = "Occupied"
    /\ \E a \in DOMAIN ambulances :
          /\ ActiveBookings(a) # {}
          /\ \A b \in ActiveBookings(a) : bookings[b].status = "arrived_pickup"

\* C24: delete_ambulance on an ambulance with a booking in the active set is
\* answered 400 and deletes nothing; no booking in an active status ever
\* references an ambulance that has been deleted.
C24_DeleteKeepsActiveAmbulance ==
    [][/\ \A a \in DOMAIN ambulances :
            (resp'.op = "amb_delete" /\ ActiveBookings(a) # {} /\ AmbDelete(a))
            => resp'.code = 400 /\ UNCHANGED <<ambulances, bookings>>
       /\ \A b \in DOMAIN bookings' :
            (bookings'[b].status \in ActiveBookingStatus
                /\ bookings'[b].ambulance_id # Null)
            => bookings'[b].ambulance_id \in DOMAIN ambulances']_vars

\* A delete of an ambulance that an active booking references has been
\* answered 400 and the ambulance is still there.
C24_DeleteRefused ==
    /\ resp.op = "amb_delete" /\ resp.code = 400
    /\ \E a \in DOMAIN ambulances : ActiveBookings(a) # {}

-----------------------------------------------------------------------------
(* System settings: src/app/routes/admin/settings/router.py.  A row of       *)
(* system_settings is its value under its key_name; the value of             *)
(* role_permissions is the list of the roles of its entries, in order (the   *)
(* three flags of an entry are stored as sent), and whether the stored text  *)
(* is JSON.  The activity_logs table is outside the model.                   *)

\* GET /api/settings/system: get_or_create_setting stores the default of
\* every row that is missing.
GetSystemSettings ==
    /\ Ready
    /\ settings' = settings @@
          [time_zone |-> "Africa/Blantyre", language |-> "English",
           email_enabled |-> "true", sms_enabled |-> "false"]
    /\ resp' = Resp("get_system_settings", 200, NoId)
    /\ UNCHANGED <<authVars, apptVars, inflight, dispatchVars>>

\* PUT /api/settings/system: 400 for a time zone pytz does not know and for
\* a language that is no active row of languages (here: English, Chichewa);
\* the booleans are stored as str(...).lower().
UpdateSystemSettings(body) ==
    LET code == IF body.timeZone \notin {"Africa/Blantyre", "UTC"} THEN 400
                ELSE IF body.language \notin {"English", "Chichewa"} THEN 400
                ELSE 200 IN
    /\ Ready
    /\ settings' = IF code = 200
                   THEN [time_zone |-> body.timeZone, language |-> body.language,
                         email_enabled |-> IF body.emailNotifications
                                           THEN "true" ELSE "false",
                         sms_enabled |-> IF body.smsNotifications
                                         THEN "true" ELSE "false"] @@ settings
                   ELSE settings
    /\ resp' = Resp("update_system_settings", code, NoId)
    /\ UNCHANGED <<authVars, apptVars, inflight, dispatchVars>>

\* GET /api/settings/permissions: a missing row is created from
\* str(default_permissions), whose True/False json.loads then refuses.
GetRolePermissions ==
    LET stored == settings @@
            [role_permissions |->
                [entries |-> <<"patient", "doctor", "nurse", "admin", "receptionist",
                               "ambulance_driver">>,
                 parses |-> FALSE]] IN
    /\ Ready
    /\ settings' = stored
    /\ resp' = Resp("get_role_permissions",
                    IF stored.role_permissions.parses THEN 200 ELSE 500, NoId)
    /\ UNCHANGED <<authVars, apptVars, inflight, dispatchVars>>

\* Bodies of PUT /api/settings/permissions, by the roles of their entries:
\* every role once, in two orders; one role left out; one role left out and
\* another given twice; every role and one of them again.
PermissionLists ==
    { <<"admin", "doctor", "nurse", "receptionist", "ambulance_driver", "patient">>,
      <<"patient", "doctor", "nurse", "admin", "receptionist", "ambulance_driver">>,
      <<"admin", "doctor", "nurse", "receptionist", "ambulance_driver">>,
      <<"admin", "admin", "doctor", "nurse", "receptionist", "ambulance_driver">>,
      <<"admin", "doctor", "nurse", "receptionist", "ambulance_driver", "patient",
        "patient">>,
      <<"admin", "doctor", "nurse", "receptionist", "ambulance_driver", "owner">> }

\* PUT /api/settings/permissions: 422 from the pattern of RolePermission.role,
\* 400 when len(permissions) != len(valid_roles), else the list is stored.
UpdateRolePermissions(permissions) ==
    LET code == IF \E i \in DOMAIN permissions : permissions[i] \notin UserRole
                THEN 422
                ELSE IF Len(permissions) # Cardinality(UserRole) THEN 400
                ELSE 200 IN
    /\ Ready
    /\ settings' = IF code = 200
                   THEN [role_permissions |->
                            [entries |-> permissions, parses |-> TRUE]] @@ settings
                   ELSE settings
    /\ resp' = Resp("update_role_permissions", code, NoId)
    /\ UNCHANGED <<authVars, apptVars, inflight, dispatchVars>>

NextSettings ==
    \/ GetSystemSettings
    \/ \E body \in [timeZone : {"Africa/Blantyre", "UTC", "Mars/Phobos"},
                    language : {"English", "Chichewa", "Latin"},
                    emailNotifications : BOOLEAN, smsNotifications : BOOLEAN] :
          UpdateSystemSettings(body)
    \/ GetRolePermissions
    \/ \E permissions \in PermissionLists : UpdateRolePermissions(permissions)
    \/ Return

SpecSettings == InitTables /\ [][NextSettings]_vars

\* C25: after every successful update_role_permissions the stored
\* role_permissions has exactly one entry for each of the six roles; a
\* request that leaves a role out is answered 400 and leaves the stored
\* setting as it was.
C25_OneEntryPerRole ==
    [][\A permissions \in PermissionLists :
        ( /\ resp'.op = "update_role_permissions"
          /\ \A i \in DOMAIN permissions : permissions[i] \in UserRole
          /\ UpdateRolePermissions(permissions) )
        => /\ resp'.code = 200 =>
                \A r \in UserRole :
                    Cardinality({ i \in DOMAIN settings'.role_permissions.entries :
                                    settings'.role_permissions.entries[i] = r }) = 1
           /\ (\E r \in UserRole : \A i \in DOMAIN permissions : permissions[i] # r)
                => resp'.code = 400 /\ settings' = settings]_vars

C27_DeactivatedTokenRefused ==
    [][\A caller \in Callers \cap DOMAIN users :
        ~users[caller].is_active =>
            /\ ( /\ resp'.op \in {"staff_book_update", "book_create"}
                 /\ \/ \E id \in BookingIds, u \in StaffBookingUpdates :
                          StaffBookUpdateBy(caller, id, u)
                    \/ \E req \in BookingCreateReqs : PatBookCreateBy(caller, req) )
               => /\ resp'.code \in {401, 403}
                  /\ UNCHANGED <<authVars, apptVars, dispatchVars>>
            /\ (resp'.op = "refresh_token" /\ RefreshToken(caller))
               => resp'.tokens = NoTokens]_vars

\* C28: in every reachable state no booking whose status is in the active set
\* references an ambulance whose is_operational is false.
C28_ActiveBookingOnOperationalAmbulance ==
    \A b \in DOMAIN bookings :
        ( /\ bookings[b].status \in ActiveBookingStatus
          /\ bookings[b].ambulance_id \in DOMAIN ambulances )
        => ambulances[bookings[b].ambulance_id].is_operational

\* C29: in every reachable state each ambulance is referenced by at most one
\* booking whose status is in the active set.
C29_OneActiveBookingPerAmbulance ==
    \A a \in AmbulanceIds : Cardinality(ActiveBookings(a)) <= 1

\* C30: the stored OTP is not bound to the purpose it was issued for: the code
\* of a verification message (signup, resend_otp) is accepted by
\* reset_password and the code of a password_reset message (forgot_password)
\* is accepted by verify_otp; the operation that accepts it clears it, and
\* with no code stored both operations answer 400 and change nothing.
C30_OtpNotBoundToPurpose ==
    [][\A i \in Identifiers, otp \in OtpCodes :
        LET u == FindUser(i) IN
        (resp'.op \in {"verify_otp", "reset_password"} /\ u # NoUser) =>
            /\ (\E t \in VerificationTypes : VerifyOtp(i, otp, t)) =>
                  /\ ( /\ users[u].otp = otp
                       /\ outbox[u] = otp
                       /\ template_type[u] = "password_reset" )
                     => (resp'.code = 200 /\ users'[u].otp = Null)
                  /\ users[u].otp = Null => (resp'.code = 400 /\ users' = users)
            /\ (\E pw \in Passwords : ResetPassword(i, otp, pw)) =>
                  /\ ( /\ users[u].otp = otp
                       /\ outbox[u] = otp
                       /\ template_type[u] = "verification" )
                     => (resp'.code = 200 /\ users'[u].otp = Null)
                  /\ users[u].otp = Null => (resp'.code = 400 /\ users' = users)]_vars

\* verify_otp has just accepted and cleared the code of n1, whose last message
\* was a password_reset one, after a reset_password had replaced the password
\* n1 signed up with.
C30_CodesCrossed ==
    /\ resp.op = "verify_otp"
    /\ resp.code = 200
    /\ "n1" \in DOMAIN users
    /\ users["n1"].otp = Null
    /\ outbox["n1"] # Null
    /\ template_type["n1"] = "password_reset"
    /\ users["n1"].password # hash_password("pw1")

=============================================================================
